---- MODULE Spec2Model ----
(***************************************************************************)
(* Model of koaMiddleware (src/src/index.ts): the Koa request handler that *)
(* translates a Koa request into an HTTPGraphQLRequest, calls Apollo       *)
(* Server's executeHTTPGraphQLRequest and renders the response onto ctx.   *)
(*                                                                         *)
(* JavaScript values are tagged records [type |-> ..., value |-> ...];     *)
(* method and url are sequences of one-character strings so that           *)
(* toUpperCase and url.parse(..).search are computed character by          *)
(* character.  Each synchronous run of JavaScript between two suspension   *)
(* points is cut into the statements the claims distinguish; the program   *)
(* counter pc records the position of each handler invocation.             *)
(***************************************************************************)
EXTENDS Integers, Sequences, FiniteSets, TLC

\* ------------------------------------------------------------------ bounds
MaxChunks == 2          \* longest chunk sequence the engine yields
MaxValues == 2          \* longest value list of a multi-valued inbound header
MaxRespHeaders == 2     \* most entries in the response header mapping

Reqs == {1, 2}          \* handler invocations (Koa contexts)

\* ------------------------------------------------------- JavaScript values
Undefined == [type |-> "undefined"]
Str(s) == [type |-> "string", value |-> s]
Num(n) == [type |-> "number", value |-> n]
Arr(a) == [type |-> "array", value |-> a]
Obj(o) == [type |-> "object", value |-> o]

\* variant: the check `ctx.request.body === undefined` instead of `!ctx.request.body`
TruthyOnlyDefined(v) == v.type # "undefined"

\* JavaScript ToBoolean, as used by `!ctx.request.body`
Truthy(v) ==
  CASE v.type = "undefined" -> FALSE
    [] v.type = "null" -> FALSE
    [] v.type = "string" -> v.value # ""
    [] v.type = "number" -> v.value # 0
    [] v.type = "boolean" -> v.value
    [] OTHER -> TRUE

\* Array.prototype.join(', ') on an array of strings
RECURSIVE JoinFrom(_, _, _)
JoinFrom(a, k, acc) ==
  IF k > Len(a) THEN acc
  ELSE JoinFrom(a, k + 1, (IF k > 1 THEN acc \o ", " ELSE acc) \o a[k])

\* variant: join(',') -- the separator without its space
RECURSIVE JoinCommaFrom(_, _, _)
JoinCommaFrom(a, k, acc) ==
  IF k > Len(a) THEN acc
  ELSE JoinCommaFrom(a, k + 1, (IF k > 1 THEN acc \o "," ELSE acc) \o a[k])

JoinComma(a) == JoinCommaFrom(a, 1, "")

Join(a) == JoinFrom(a, 1, "")

\* Array.isArray(value) ? value.join(', ') : value
HeaderValue(v) == IF v.type = "array" THEN Join(v.value) ELSE v.value

\* Map.prototype.set on a Map kept as the sequence of its entries in
\* insertion order: an existing key keeps its position and gets the new value
MapSet(m, k, v) ==
  IF \E i \in 1..Len(m) : m[i][1] = k
  THEN [i \in 1..Len(m) |-> IF m[i][1] = k THEN <<k, v>> ELSE m[i]]
  ELSE Append(m, <<k, v>>)

\* new Map(function*() { for (const [key, value] of Object.entries(ctx.headers)) ... }())
RECURSIVE IncomingFrom(_, _, _)
IncomingFrom(raw, k, m) ==
  IF k > Len(raw) THEN m
  ELSE IncomingFrom(raw, k + 1,
         IF raw[k][2] # Undefined
         THEN MapSet(m, raw[k][1], HeaderValue(raw[k][2]))
         ELSE m)

incomingHeaders(raw) == IncomingFrom(raw, 1, <<>>)

\* String.prototype.toUpperCase on the letters the methods below use
UpperChar(c) ==
  CASE c = "p" -> "P" [] c = "o" -> "O" [] c = "s" -> "S" [] c = "t" -> "T"
    [] c = "g" -> "G" [] c = "e" -> "E"
    [] OTHER -> c

toUpperCase(s) == [i \in 1..Len(s) |-> UpperChar(s[i])]

\* index of the first c in s, 0 when there is none
IndexOf(s, c) ==
  IF \E i \in 1..Len(s) : s[i] = c
  THEN CHOOSE i \in 1..Len(s) : s[i] = c /\ \A j \in 1..(i - 1) : s[j] # c
  ELSE 0

\* url.parse(u).search: the part from the first "?" up to the fragment;
\* null when the url (fragment removed) has no "?"
Null == [type |-> "null"]
ParseSearch(u) ==
  LET h == IndexOf(u, "#")
      rest == IF h = 0 THEN u ELSE SubSeq(u, 1, h - 1)
      q == IndexOf(rest, "?")
  IN IF q = 0 THEN Null ELSE Str(SubSeq(rest, q, Len(rest)))

\* parse(ctx.url).search ?? ''
Search(u) == IF ParseSearch(u) = Null THEN <<>> ELSE ParseSearch(u).value

\* the HTTPGraphQLRequest built from ctx
httpGraphQLRequest(in) ==
  [method |-> toUpperCase(in.method),
   headers |-> incomingHeaders(in.headers),
   search |-> Search(in.url),
   body |-> in.body]

\* `Delivery method ${kind} not implemented`
DeliveryError(kind) == "Delivery method " \o kind \o " not implemented"

\* the fixed diagnostic of the precondition failure (a TLA+ string cannot hold
\* the backquotes the source puts around the two names)
BodyNotSetMessage ==
  "ctx.request.body is not set; this probably means you forgot to set up the "
  \o "koa-bodyparser middleware before the Apollo Server middleware."

\* variant: ctx.append(key, value) -- the value is added to those already there
CtxAppend(h, key, value) == [h EXCEPT ![key] = Append(@, value)]

\* ctx.set(key, value): the outbound header object maps a key to the list of
\* its values; set replaces whatever was there
CtxSet(h, key, value) == [h EXCEPT ![key] = <<value>>]

\* typeof ctx.body.flush === "function"
HasFlush(b) == b.type = "stream" /\ b.flush

\* Readable.from(async function*() { ... }()): a stream without a flush method
ReadableFrom == [type |-> "stream", flush |-> FALSE]

\* the argument list the thunk `() => context({ ctx })` passes to the builder
ThunkArgs(r) == <<[ctx |-> r]>>

\* ------------------------------------------------------------ input sets
Prefixes(s, n) == {SubSeq(s, 1, k) : k \in 0..(IF n < Len(s) THEN n ELSE Len(s))}

SeqsUpTo(S, n) == UNION {[1..k -> S] : k \in 0..n}

HeaderKeys == {"a", "b"}

\* values of a raw inbound header: absent, single, or a list of values
RawValues ==
  {Undefined, Str("1")} \cup {Arr(a) : a \in Prefixes(<<"1", "2", "3", "4">>, MaxValues)}

\* Object.entries(ctx.headers): entries in property order, keys distinct
RawHeaders ==
  {h \in SeqsUpTo(HeaderKeys \X RawValues, Cardinality(HeaderKeys)) :
     \A i, j \in 1..Len(h) : i # j => h[i][1] # h[j][1]}

Methods == {<<"p", "o", "s", "t">>, <<"G", "E", "T">>}

Urls == {<<"/", "g">>, <<"/", "g", "?">>, <<"/", "g", "?", "x", "&", "y">>,
         <<"/", "g", "?", "x", "#", "h">>, <<"/", "g", "#", "h", "?", "x">>}

\* ctx.request.body as the upstream middleware left it
Bodies == {Undefined, Null, Str(""), Str("q"), Obj("{}"), Obj("{query}")}

NoHeaders == [k \in HeaderKeys |-> <<>>]

DefaultInput ==
  [body |-> Obj("{}"), headers |-> <<>>, method |-> <<"p", "o", "s", "t">>,
   url |-> <<"/", "g">>, status |-> 404, outHeaders |-> NoHeaders]

\* the inbound requests: each dimension is varied against the default of the others
Inputs ==
  {[DefaultInput EXCEPT !.headers = h] : h \in RawHeaders}
  \cup {[DefaultInput EXCEPT !.method = m, !.url = u] : m \in Methods, u \in Urls}
  \cup {[DefaultInput EXCEPT !.body = b] : b \in Bodies}
  \cup {[DefaultInput EXCEPT !.status = s, !.outHeaders = o] :
          s \in {404, 200}, o \in {NoHeaders, [NoHeaders EXCEPT !["a"] = <<"old">>]}}

Chunks == {"a", "b"}

ResponseBodies ==
  {[kind |-> "complete", string |-> s] : s \in {"", "{data}"}}
  \cup {[kind |-> "chunked", asyncIterator |-> c] : c \in SeqsUpTo(Chunks, MaxChunks)}
  \cup {[kind |-> k] : k \in {"weird", "other"}}

RespHeaderEntries == {<<"a", "1">>, <<"a", "2">>, <<"b", "1">>}

RespHeaders == SeqsUpTo(RespHeaderEntries, MaxRespHeaders)

Statuses == {Undefined, Num(400)}

\* what executeHTTPGraphQLRequest will do for a request: resolve with a
\* response or reject, having invoked the context thunk or not
Responses ==
  {[body |-> [kind |-> "complete", string |-> "{data}"], headers |-> h, status |-> s] :
     h \in RespHeaders, s \in Statuses}
  \cup {[body |-> b, headers |-> <<<<"a", "1">>>>, status |-> s] :
          b \in ResponseBodies, s \in Statuses}

Outcomes ==
  {[result |-> "resolve", response |-> p, callsContext |-> c] :
     p \in Responses, c \in BOOLEAN}
  \cup {[result |-> "reject", callsContext |-> c] : c \in BOOLEAN}

NoResponse == [body |-> [kind |-> "none"], headers |-> <<>>, status |-> Undefined]

\* ------------------------------------------------------------------ state
VARIABLES
  serverStarted,  \* the ApolloServer has been started
  assertStartedCalls, \* arguments of the server.assertStarted calls made
  dropped,        \* per request: the client's connection is gone
  middleware,     \* "none", "created" (koaMiddleware returned), "failed" (it threw)
  input,          \* per request: the Koa context as the handler receives it
  engine,         \* per request: what the engine will do when called
  pc,             \* per request: position of the handler invocation
  ctxStatus,      \* ctx.status
  ctxBody,        \* ctx.body
  ctxHeaders,     \* outbound headers, key -> list of values
  engineCalls,    \* per request: arguments of the executeHTTPGraphQLRequest calls
  thunkCalls,     \* per request: times the engine invoked the context thunk
  contextCalls,   \* per request: argument lists of the context builder calls
  response,       \* per request: { body, headers, status } once the await resolved
  error,          \* per request: message of the error the handler threw, "" if none
  headerIndex,    \* per request: position of the write-back loop in headers
  generator,      \* per request: state of the async generator behind the stream
  requested,      \* per request: next() calls made on body.asyncIterator
  pending,        \* per request: chunks taken from the iterator, not yet yielded
  emitted,        \* per request: chunks yielded to the outbound stream
  flushCalls      \* per request: calls of ctx.body.flush()

vars ==
  <<serverStarted, assertStartedCalls, dropped, middleware, input, engine, pc, ctxStatus, ctxBody, ctxHeaders,
    engineCalls, thunkCalls, contextCalls, response, error, headerIndex,
    generator, requested, pending, emitted, flushCalls>>

requestVars == <<serverStarted, assertStartedCalls, dropped, middleware, input, engine>>
outVars == <<ctxStatus, ctxBody, ctxHeaders>>
callVars == <<engineCalls, thunkCalls, contextCalls>>
streamVars == <<generator, requested, pending, emitted, flushCalls>>

\* the state before koaMiddleware is called, for the requests in `active`
InitWith(active, ins, outs) ==
  /\ serverStarted = FALSE
  /\ assertStartedCalls = <<>>
  /\ dropped = [r \in Reqs |-> FALSE]
  /\ middleware = "none"
  /\ \E f \in [active -> ins] :
        input = [r \in Reqs |-> IF r \in active THEN f[r] ELSE DefaultInput]
  /\ \E f \in [active -> outs] :
        engine = [r \in Reqs |-> IF r \in active THEN f[r]
                                 ELSE [result |-> "reject", callsContext |-> FALSE]]
  /\ pc = [r \in Reqs |-> IF r \in active THEN "idle" ELSE "absent"]
  /\ ctxStatus = [r \in Reqs |-> input[r].status]
  /\ ctxBody = [r \in Reqs |-> Undefined]
  /\ ctxHeaders = [r \in Reqs |-> input[r].outHeaders]
  /\ engineCalls = [r \in Reqs |-> <<>>]
  /\ thunkCalls = [r \in Reqs |-> 0]
  /\ contextCalls = [r \in Reqs |-> <<>>]
  /\ response = [r \in Reqs |-> NoResponse]
  /\ error = [r \in Reqs |-> ""]
  /\ headerIndex = [r \in Reqs |-> 1]
  /\ generator = [r \in Reqs |-> "none"]
  /\ requested = [r \in Reqs |-> 0]
  /\ pending = [r \in Reqs |-> <<>>]
  /\ emitted = [r \in Reqs |-> <<>>]
  /\ flushCalls = [r \in Reqs |-> 0]

Init == InitWith({1}, Inputs, Outcomes)

\* ---------------------------------------------------------------- actions
\* variant: the handler is returned without server.assertStarted being called
koaMiddlewareUnchecked ==
  /\ middleware = "none"
  /\ middleware' = "created"
  /\ UNCHANGED <<serverStarted, assertStartedCalls, dropped, input, engine, pc,
                 outVars, callVars, response, error, headerIndex, streamVars>>

\* koaMiddleware(server, options): server.assertStarted('koaMiddleware()')
\* throws unless the server is started; otherwise the handler is returned
koaMiddleware ==
  /\ middleware = "none"
  /\ assertStartedCalls' = Append(assertStartedCalls, "koaMiddleware()")
  /\ middleware' = IF serverStarted THEN "created" ELSE "failed"
  /\ UNCHANGED <<serverStarted, dropped, input, engine, pc, outVars, callVars, response,
                 error, headerIndex, streamVars>>

\* variant: the context is built eagerly, before the engine is called
HandleEagerContext(r) ==
  /\ middleware = "created"
  /\ pc[r] = "idle"
  /\ IF ~Truthy(input[r].body)
     THEN /\ ctxStatus' = [ctxStatus EXCEPT ![r] = 500]
          /\ ctxBody' = [ctxBody EXCEPT ![r] = Str(BodyNotSetMessage)]
          /\ pc' = [pc EXCEPT ![r] = "returned"]
          /\ UNCHANGED <<engineCalls, contextCalls>>
     ELSE /\ contextCalls' = [contextCalls EXCEPT ![r] = Append(@, ThunkArgs(r))]
          /\ engineCalls' = [engineCalls EXCEPT ![r] =
               Append(@, [httpGraphQLRequest |-> httpGraphQLRequest(input[r]),
                          context |-> ThunkArgs(r)])]
          /\ pc' = [pc EXCEPT ![r] = "await"]
          /\ UNCHANGED <<ctxStatus, ctxBody>>
  /\ UNCHANGED <<requestVars, ctxHeaders, thunkCalls, response,
                 error, headerIndex, streamVars>>

\* the handler from its entry to its first suspension: the body check, and
\* either the 500 answer or the call of executeHTTPGraphQLRequest
Handle(r) ==
  /\ middleware = "created"
  /\ pc[r] = "idle"
  /\ IF ~Truthy(input[r].body)
     THEN /\ ctxStatus' = [ctxStatus EXCEPT ![r] = 500]
          /\ ctxBody' = [ctxBody EXCEPT ![r] = Str(BodyNotSetMessage)]
          /\ pc' = [pc EXCEPT ![r] = "returned"]
          /\ UNCHANGED engineCalls
     ELSE /\ engineCalls' = [engineCalls EXCEPT ![r] =
               Append(@, [httpGraphQLRequest |-> httpGraphQLRequest(input[r]),
                          context |-> ThunkArgs(r)])]
          /\ pc' = [pc EXCEPT ![r] = "await"]
          /\ UNCHANGED <<ctxStatus, ctxBody>>
  /\ UNCHANGED <<requestVars, ctxHeaders, thunkCalls, contextCalls, response,
                 error, headerIndex, streamVars>>

\* the engine invokes the thunk it was given: context({ ctx }) runs
EngineInvokesThunk(r) ==
  /\ pc[r] = "await"
  /\ engine[r].callsContext
  /\ thunkCalls[r] = 0
  /\ thunkCalls' = [thunkCalls EXCEPT ![r] = @ + 1]
  /\ contextCalls' = [contextCalls EXCEPT ![r] = Append(@, engineCalls[r][1].context)]
  /\ UNCHANGED <<requestVars, pc, outVars, engineCalls, response, error,
                 headerIndex, streamVars>>

EngineSettled(r) ==
  /\ pc[r] = "await"
  /\ engine[r].callsContext => thunkCalls[r] = 1

\* variant: the status is written as soon as the response is there, before
\* the body is rendered
EngineResolvesWritesStatus(r) ==
  /\ EngineSettled(r)
  /\ engine[r].result = "resolve"
  /\ response' = [response EXCEPT ![r] = engine[r].response]
  /\ ctxStatus' = [ctxStatus EXCEPT ![r] =
        IF engine[r].response.status # Undefined
        THEN engine[r].response.status.value ELSE @]
  /\ pc' = [pc EXCEPT ![r] = "render"]
  /\ UNCHANGED <<requestVars, ctxBody, ctxHeaders, callVars, error, headerIndex,
                 streamVars>>

\* the await resolves: const { body, headers, status } = ...
EngineResolves(r) ==
  /\ EngineSettled(r)
  /\ engine[r].result = "resolve"
  /\ response' = [response EXCEPT ![r] = engine[r].response]
  /\ pc' = [pc EXCEPT ![r] = "render"]
  /\ UNCHANGED <<requestVars, outVars, callVars, error, headerIndex, streamVars>>

\* variant: a rejection is caught and answered with a 500
EngineRejectsCaught(r) ==
  /\ EngineSettled(r)
  /\ engine[r].result = "reject"
  /\ ctxStatus' = [ctxStatus EXCEPT ![r] = 500]
  /\ pc' = [pc EXCEPT ![r] = "returned"]
  /\ UNCHANGED <<requestVars, ctxBody, ctxHeaders, callVars, response, error,
                 headerIndex, streamVars>>

\* variant: a rejection is caught and the engine is called once more
EngineRejectsRetry(r) ==
  /\ EngineSettled(r)
  /\ engine[r].result = "reject"
  /\ IF Len(engineCalls[r]) < 2
     THEN /\ engineCalls' = [engineCalls EXCEPT ![r] = Append(@, @[1])]
          /\ UNCHANGED <<error, pc>>
     ELSE /\ error' = [error EXCEPT ![r] = "engine"]
          /\ pc' = [pc EXCEPT ![r] = "thrown"]
          /\ UNCHANGED engineCalls
  /\ UNCHANGED <<requestVars, outVars, thunkCalls, contextCalls, response,
                 headerIndex, streamVars>>

\* the await rejects: nothing catches, the handler's promise rejects
EngineRejects(r) ==
  /\ EngineSettled(r)
  /\ engine[r].result = "reject"
  /\ error' = [error EXCEPT ![r] = "engine"]
  /\ pc' = [pc EXCEPT ![r] = "thrown"]
  /\ UNCHANGED <<requestVars, outVars, callVars, response, headerIndex, streamVars>>

\* variant: the response is kept in a variable outside the handler, shared by
\* all invocations -- the body rendered is the one another request left there
RenderBodyShared(r) ==
  /\ pc[r] = "render"
  /\ LET others == {q \in Reqs \ {r} : response[q].body.kind # "none"}
         body == IF others = {} THEN response[r].body
                 ELSE response[CHOOSE q \in others : TRUE].body
     IN
     IF body.kind = "complete"
     THEN /\ ctxBody' = [ctxBody EXCEPT ![r] = Str(body.string)]
          /\ pc' = [pc EXCEPT ![r] = "status"]
          /\ UNCHANGED <<error, generator>>
     ELSE IF body.kind = "chunked"
     THEN /\ ctxBody' = [ctxBody EXCEPT ![r] = ReadableFrom]
          /\ generator' = [generator EXCEPT ![r] = "suspendedStart"]
          /\ pc' = [pc EXCEPT ![r] = "status"]
          /\ UNCHANGED error
     ELSE /\ error' = [error EXCEPT ![r] = DeliveryError(body.kind)]
          /\ pc' = [pc EXCEPT ![r] = "thrown"]
          /\ UNCHANGED <<ctxBody, generator>>
  /\ UNCHANGED <<requestVars, ctxStatus, ctxHeaders, callVars, response,
                 headerIndex, requested, pending, emitted, flushCalls>>

\* variant: the status is written before the body tag is looked at
RenderBodyStatusFirst(r) ==
  /\ pc[r] = "render"
  /\ ctxStatus' = [ctxStatus EXCEPT ![r] =
        IF response[r].status # Undefined THEN response[r].status.value ELSE @]
  /\ LET body == response[r].body IN
     IF body.kind = "complete"
     THEN /\ ctxBody' = [ctxBody EXCEPT ![r] = Str(body.string)]
          /\ pc' = [pc EXCEPT ![r] = "status"]
          /\ UNCHANGED <<error, generator>>
     ELSE IF body.kind = "chunked"
     THEN /\ ctxBody' = [ctxBody EXCEPT ![r] = ReadableFrom]
          /\ generator' = [generator EXCEPT ![r] = "suspendedStart"]
          /\ pc' = [pc EXCEPT ![r] = "status"]
          /\ UNCHANGED error
     ELSE /\ error' = [error EXCEPT ![r] = DeliveryError(body.kind)]
          /\ pc' = [pc EXCEPT ![r] = "thrown"]
          /\ UNCHANGED <<ctxBody, generator>>
  /\ UNCHANGED <<requestVars, ctxHeaders, callVars, response,
                 headerIndex, requested, pending, emitted, flushCalls>>

\* variant: the final else does not throw, the handler goes on to write-back
RenderBodySilent(r) ==
  /\ pc[r] = "render"
  /\ LET body == response[r].body IN
     IF body.kind = "complete"
     THEN /\ ctxBody' = [ctxBody EXCEPT ![r] = Str(body.string)]
          /\ UNCHANGED generator
     ELSE IF body.kind = "chunked"
     THEN /\ ctxBody' = [ctxBody EXCEPT ![r] = ReadableFrom]
          /\ generator' = [generator EXCEPT ![r] = "suspendedStart"]
     ELSE UNCHANGED <<ctxBody, generator>>
  /\ pc' = [pc EXCEPT ![r] = "status"]
  /\ UNCHANGED <<requestVars, ctxStatus, ctxHeaders, callVars, response, error,
                 headerIndex, requested, pending, emitted, flushCalls>>

\* variant: a complete body is delivered through a stream as well
RenderBodyAlwaysStream(r) ==
  /\ pc[r] = "render"
  /\ LET body == response[r].body IN
     IF body.kind \in {"complete", "chunked"}
     THEN /\ ctxBody' = [ctxBody EXCEPT ![r] = ReadableFrom]
          /\ generator' = [generator EXCEPT ![r] = "suspendedStart"]
          /\ response' = [response EXCEPT ![r].body =
                IF body.kind = "complete"
                THEN [kind |-> "complete", string |-> body.string,
                      asyncIterator |-> <<body.string>>]
                ELSE body]
          /\ pc' = [pc EXCEPT ![r] = "status"]
          /\ UNCHANGED error
     ELSE /\ error' = [error EXCEPT ![r] = DeliveryError(body.kind)]
          /\ pc' = [pc EXCEPT ![r] = "thrown"]
          /\ UNCHANGED <<ctxBody, generator, response>>
  /\ UNCHANGED <<requestVars, ctxStatus, ctxHeaders, callVars,
                 headerIndex, requested, pending, emitted, flushCalls>>

\* if (body.kind === 'complete') ... else if (body.kind === 'chunked') ... else throw
RenderBody(r) ==
  /\ pc[r] = "render"
  /\ LET body == response[r].body IN
     IF body.kind = "complete"
     THEN /\ ctxBody' = [ctxBody EXCEPT ![r] = Str(body.string)]
          /\ pc' = [pc EXCEPT ![r] = "status"]
          /\ UNCHANGED <<error, generator>>
     ELSE IF body.kind = "chunked"
     THEN /\ ctxBody' = [ctxBody EXCEPT ![r] = ReadableFrom]
          /\ generator' = [generator EXCEPT ![r] = "suspendedStart"]
          /\ pc' = [pc EXCEPT ![r] = "status"]
          /\ UNCHANGED error
     ELSE /\ error' = [error EXCEPT ![r] = DeliveryError(body.kind)]
          /\ pc' = [pc EXCEPT ![r] = "thrown"]
          /\ UNCHANGED <<ctxBody, generator>>
  /\ UNCHANGED <<requestVars, ctxStatus, ctxHeaders, callVars, response,
                 headerIndex, requested, pending, emitted, flushCalls>>

\* variant: ctx.status = status ?? 200
WriteStatusDefault(r) ==
  /\ pc[r] = "status"
  /\ ctxStatus' = [ctxStatus EXCEPT ![r] =
        IF response[r].status # Undefined THEN response[r].status.value ELSE 200]
  /\ pc' = [pc EXCEPT ![r] = "headers"]
  /\ UNCHANGED <<requestVars, ctxBody, ctxHeaders, callVars, response, error,
                 headerIndex, streamVars>>

\* if (status !== undefined) ctx.status = status
WriteStatus(r) ==
  /\ pc[r] = "status"
  /\ ctxStatus' = [ctxStatus EXCEPT ![r] =
        IF response[r].status # Undefined THEN response[r].status.value ELSE @]
  /\ pc' = [pc EXCEPT ![r] = "headers"]
  /\ UNCHANGED <<requestVars, ctxBody, ctxHeaders, callVars, response, error,
                 headerIndex, streamVars>>

\* one iteration of: for (const [key, value] of headers) ctx.set(key, value)
WriteHeader(r) ==
  /\ pc[r] = "headers"
  /\ headerIndex[r] <= Len(response[r].headers)
  /\ LET entry == response[r].headers[headerIndex[r]] IN
       ctxHeaders' = [ctxHeaders EXCEPT ![r] = CtxSet(@, entry[1], entry[2])]
  /\ headerIndex' = [headerIndex EXCEPT ![r] = @ + 1]
  /\ UNCHANGED <<requestVars, pc, ctxStatus, ctxBody, callVars, response, error,
                 streamVars>>

\* the loop is over and the handler returns
Return(r) ==
  /\ pc[r] = "headers"
  /\ headerIndex[r] > Len(response[r].headers)
  /\ pc' = [pc EXCEPT ![r] = "returned"]
  /\ UNCHANGED <<requestVars, outVars, callVars, response, error, headerIndex,
                 streamVars>>

\* an outer middleware pipes the stream body into a compression stream, which
\* becomes ctx.body and has a flush method
PipeCompression(r) ==
  /\ pc[r] = "returned"
  /\ generator[r] = "suspendedStart"
  /\ ~HasFlush(ctxBody[r])
  /\ ctxBody' = [ctxBody EXCEPT ![r] = [@ EXCEPT !.flush = TRUE]]
  /\ UNCHANGED <<requestVars, pc, ctxStatus, ctxHeaders, callVars, response,
                 error, headerIndex, streamVars>>

\* the client goes away while the response is streamed: from here on the
\* outbound stream is not read any more.  The generator is left where it is
\* suspended (before its first step, at a yield, or waiting for the iterator).
ConnectionDropped(r) ==
  /\ pc[r] = "returned"
  /\ ~dropped[r]
  /\ generator[r] \in {"suspendedStart", "suspendedYield", "awaiting"}
  /\ dropped' = [dropped EXCEPT ![r] = TRUE]
  /\ UNCHANGED <<serverStarted, assertStartedCalls, middleware, input, engine, pc,
                 outVars, callVars, response, error, headerIndex, streamVars>>

\* variant: the stream is read as soon as it exists, while the handler still runs
PullEarly(r) ==
  /\ ~dropped[r]
  /\ generator[r] \in {"suspendedStart", "suspendedYield"}
  /\ generator' = [generator EXCEPT ![r] =
        IF @ = "suspendedStart" THEN "next" ELSE "flush"]
  /\ UNCHANGED <<requestVars, pc, outVars, callVars, response, error,
                 headerIndex, requested, pending, emitted, flushCalls>>

\* the outbound stream asks the generator for its next value
Pull(r) ==
  /\ pc[r] = "returned"
  /\ ~dropped[r]
  /\ generator[r] \in {"suspendedStart", "suspendedYield"}
  /\ generator' = [generator EXCEPT ![r] =
        IF @ = "suspendedStart" THEN "next" ELSE "flush"]
  /\ UNCHANGED <<requestVars, pc, outVars, callVars, response, error,
                 headerIndex, requested, pending, emitted, flushCalls>>

\* variant: ctx.body.flush() is called without the typeof check
FlushUnchecked(r) ==
  /\ generator[r] = "flush"
  /\ flushCalls' = [flushCalls EXCEPT ![r] = @ + 1]
  /\ generator' = [generator EXCEPT ![r] = "next"]
  /\ UNCHANGED <<requestVars, pc, outVars, callVars, response, error,
                 headerIndex, requested, pending, emitted>>

\* resumed after `yield chunk`:
\* if (typeof ctx.body.flush === "function") ctx.body.flush()
Flush(r) ==
  /\ generator[r] = "flush"
  /\ flushCalls' = [flushCalls EXCEPT ![r] = IF HasFlush(ctxBody[r]) THEN @ + 1 ELSE @]
  /\ generator' = [generator EXCEPT ![r] = "next"]
  /\ UNCHANGED <<requestVars, pc, outVars, callVars, response, error,
                 headerIndex, requested, pending, emitted>>

\* for await: the generator calls next() on body.asyncIterator and waits
RequestChunk(r) ==
  /\ generator[r] = "next"
  /\ requested' = [requested EXCEPT ![r] = @ + 1]
  /\ generator' = [generator EXCEPT ![r] = "awaiting"]
  /\ UNCHANGED <<requestVars, pc, outVars, callVars, response, error,
                 headerIndex, pending, emitted, flushCalls>>

\* variant: the loop reads ahead -- a chunk that arrives is kept and the next
\* one is asked for before anything is yielded
IteratorYieldsEager(r) ==
  /\ generator[r] = "awaiting"
  /\ requested[r] <= Len(response[r].body.asyncIterator)
  /\ pending' = [pending EXCEPT ![r] =
        Append(@, response[r].body.asyncIterator[requested[r]])]
  /\ generator' = [generator EXCEPT ![r] =
        IF requested[r] < Len(response[r].body.asyncIterator) THEN "next" ELSE "yield"]
  /\ UNCHANGED <<requestVars, pc, outVars, callVars, response, error,
                 headerIndex, requested, emitted, flushCalls>>

\* the engine's iterator produces the requested chunk
IteratorYields(r) ==
  /\ generator[r] = "awaiting"
  /\ requested[r] <= Len(response[r].body.asyncIterator)
  /\ pending' = [pending EXCEPT ![r] =
        Append(@, response[r].body.asyncIterator[requested[r]])]
  /\ generator' = [generator EXCEPT ![r] = "yield"]
  /\ UNCHANGED <<requestVars, pc, outVars, callVars, response, error,
                 headerIndex, requested, emitted, flushCalls>>

\* variant: the chunks are collected newest first
YieldChunkReversed(r) ==
  /\ generator[r] = "yield"
  /\ emitted' = [emitted EXCEPT ![r] = <<Head(pending[r])>> \o @]
  /\ pending' = [pending EXCEPT ![r] = Tail(@)]
  /\ generator' = [generator EXCEPT ![r] = "suspendedYield"]
  /\ UNCHANGED <<requestVars, pc, outVars, callVars, response, error,
                 headerIndex, requested, flushCalls>>

\* variant: the chunk is pushed to the stream and the loop goes on without
\* suspending (a push loop in place of a generator)
YieldChunkPush(r) ==
  /\ generator[r] = "yield"
  /\ emitted' = [emitted EXCEPT ![r] = Append(@, Head(pending[r]))]
  /\ pending' = [pending EXCEPT ![r] = Tail(@)]
  /\ generator' = [generator EXCEPT ![r] = "flush"]
  /\ UNCHANGED <<requestVars, pc, outVars, callVars, response, error,
                 headerIndex, requested, flushCalls>>

\* yield chunk: the chunk goes to the outbound stream, the generator suspends
YieldChunk(r) ==
  /\ generator[r] = "yield"
  /\ emitted' = [emitted EXCEPT ![r] = Append(@, Head(pending[r]))]
  /\ pending' = [pending EXCEPT ![r] = Tail(@)]
  /\ generator' = [generator EXCEPT ![r] = "suspendedYield"]
  /\ UNCHANGED <<requestVars, pc, outVars, callVars, response, error,
                 headerIndex, requested, flushCalls>>

\* variant: the end of the iterator is not taken as the end of the loop, the
\* generator asks again
IteratorDoneSpins(r) ==
  /\ generator[r] = "awaiting"
  /\ requested[r] > Len(response[r].body.asyncIterator)
  /\ requested' = [requested EXCEPT ![r] = @ - 1]
  /\ generator' = [generator EXCEPT ![r] = "next"]
  /\ UNCHANGED <<requestVars, pc, outVars, callVars, response, error,
                 headerIndex, pending, emitted, flushCalls>>

\* the engine's iterator is exhausted: the loop ends, the stream ends
IteratorDone(r) ==
  /\ generator[r] = "awaiting"
  /\ requested[r] > Len(response[r].body.asyncIterator)
  /\ generator' = [generator EXCEPT ![r] = "completed"]
  /\ UNCHANGED <<requestVars, pc, outVars, callVars, response, error,
                 headerIndex, requested, pending, emitted, flushCalls>>

\* the server is started (await server.start())
StartServer ==
  /\ ~serverStarted
  /\ middleware = "none"
  /\ serverStarted' = TRUE
  /\ UNCHANGED <<assertStartedCalls, dropped, middleware, input, engine, pc, outVars, callVars, response,
                 error, headerIndex, streamVars>>

Next ==
  \/ StartServer
  \/ koaMiddleware
  \/ \E r \in Reqs : Handle(r)
  \/ \E r \in Reqs : EngineInvokesThunk(r)
  \/ \E r \in Reqs : EngineResolves(r)
  \/ \E r \in Reqs : EngineRejects(r)
  \/ \E r \in Reqs : RenderBody(r)
  \/ \E r \in Reqs : WriteStatus(r)
  \/ \E r \in Reqs : WriteHeader(r)
  \/ \E r \in Reqs : Return(r)
  \/ \E r \in Reqs : PipeCompression(r)
  \/ \E r \in Reqs : ConnectionDropped(r)
  \/ \E r \in Reqs : Pull(r)
  \/ \E r \in Reqs : Flush(r)
  \/ \E r \in Reqs : RequestChunk(r)
  \/ \E r \in Reqs : IteratorYields(r)
  \/ \E r \in Reqs : YieldChunk(r)
  \/ \E r \in Reqs : IteratorDone(r)

Spec == Init /\ [][Next]_vars

\* two requests in flight at once, each from a few inputs and outcomes
MultiInputs ==
  {DefaultInput,
   [DefaultInput EXCEPT !.body = Undefined],
   [DefaultInput EXCEPT !.status = 200, !.outHeaders = [NoHeaders EXCEPT !["a"] = <<"old">>]]}

MultiOutcomes ==
  {[result |-> "resolve", callsContext |-> TRUE,
    response |-> [body |-> [kind |-> "complete", string |-> "{data}"],
                  headers |-> <<<<"a", "1">>, <<"a", "2">>>>, status |-> Num(400)]],
   [result |-> "resolve", callsContext |-> FALSE,
    response |-> [body |-> [kind |-> "chunked", asyncIterator |-> <<"a", "b">>],
                  headers |-> <<<<"b", "1">>>>, status |-> Undefined]],
   [result |-> "resolve", callsContext |-> FALSE,
    response |-> [body |-> [kind |-> "chunked", asyncIterator |-> <<"b">>],
                  headers |-> <<>>, status |-> Num(400)]],
   [result |-> "resolve", callsContext |-> FALSE,
    response |-> [body |-> [kind |-> "weird"],
                  headers |-> <<<<"a", "1">>>>, status |-> Num(400)]],
   [result |-> "reject", callsContext |-> TRUE]}

InitMulti == InitWith(Reqs, MultiInputs, MultiOutcomes)

SpecMulti == InitMulti /\ [][Next]_vars

\* the run of one request whose client stays connected and keeps reading
InitPulling == InitWith({1}, {DefaultInput}, Outcomes)

NextPulling ==
  \/ StartServer
  \/ koaMiddleware
  \/ \E r \in Reqs : Handle(r)
  \/ \E r \in Reqs : EngineInvokesThunk(r)
  \/ \E r \in Reqs : EngineResolves(r)
  \/ \E r \in Reqs : EngineRejects(r)
  \/ \E r \in Reqs : RenderBody(r)
  \/ \E r \in Reqs : WriteStatus(r)
  \/ \E r \in Reqs : WriteHeader(r)
  \/ \E r \in Reqs : Return(r)
  \/ \E r \in Reqs : PipeCompression(r)
  \/ \E r \in Reqs : Pull(r)
  \/ \E r \in Reqs : Flush(r)
  \/ \E r \in Reqs : RequestChunk(r)
  \/ \E r \in Reqs : IteratorYields(r)
  \/ \E r \in Reqs : YieldChunk(r)
  \/ \E r \in Reqs : IteratorDone(r)

\* the event loop runs every continuation that is ready (the rest of the
\* handler, the generator's steps), the engine's finite iterator settles
\* every next(), and the consumer reads whenever the generator is suspended
HandlerStep(r) == RenderBody(r) \/ WriteStatus(r) \/ WriteHeader(r) \/ Return(r)

StreamStep(r) ==
  \/ Pull(r)
  \/ Flush(r)
  \/ RequestChunk(r)
  \/ IteratorYields(r)
  \/ YieldChunk(r)
  \/ IteratorDone(r)

SpecPulling ==
  /\ InitPulling
  /\ [][NextPulling]_vars
  /\ \A r \in Reqs : WF_vars(HandlerStep(r)) /\ WF_vars(StreamStep(r))

\* ----------------------------------------------------------- properties
Handled(r) == pc[r] \notin {"absent", "idle"}

Responded(r) == response[r].body.kind # "none"

\* the values of Bodies that JavaScript treats as false, and the others
FalsyBodies == {Undefined, Null, Str("")}
TruthyBodies == Bodies \ FalsyBodies

\* C1: a request whose inbound body is unset (falsy) gets status 500 and the
\* fixed diagnostic as body, the handler returns normally without raising,
\* and executeHTTPGraphQLRequest is never called for it.
C1_UnsetBodyAnswers500 ==
  \A r \in Reqs :
    (Handled(r) /\ input[r].body \in FalsyBodies) =>
      /\ pc[r] = "returned"
      /\ error[r] = ""
      /\ ctxStatus[r] = 500
      /\ ctxBody[r] = Str(BodyNotSetMessage)
      /\ engineCalls[r] = <<>>
      /\ ~Responded(r)

C1_Witness ==
  \E r \in Reqs :
    /\ input[r].body = Str("")
    /\ pc[r] = "returned"
    /\ ctxStatus[r] = 500
    /\ engineCalls[r] = <<>>

\* C2: a request whose body is set (an empty object included) makes the
\* handler call executeHTTPGraphQLRequest exactly once, with the canonical
\* request and the context thunk, whatever the engine then returns or raises.
C2_EngineCalledExactlyOnce ==
  \A r \in Reqs :
    (Handled(r) /\ input[r].body \in TruthyBodies) =>
      /\ Len(engineCalls[r]) = 1
      /\ engineCalls[r][1].context = <<[ctx |-> r]>>
      /\ engineCalls[r][1].httpGraphQLRequest.body = input[r].body
      /\ engineCalls[r][1].httpGraphQLRequest = httpGraphQLRequest(input[r])

C2_Witness ==
  \E r \in Reqs :
    /\ input[r].body = Obj("{}")
    /\ input[r].url = <<"/", "g", "?", "x", "&", "y">>
    /\ pc[r] = "thrown"
    /\ error[r] = "engine"
    /\ Len(engineCalls[r]) = 1
    /\ engineCalls[r][1].httpGraphQLRequest.method = <<"P", "O", "S", "T">>
    /\ engineCalls[r][1].httpGraphQLRequest.search = <<"?", "x", "&", "y">>

\* C3: the context builder is called with exactly one argument, the wrapper
\* { ctx } of the request's Koa context, at most once per request, and only
\* when the engine invokes the thunk: the handler itself never calls it.
C3_ContextBuiltOnlyByThunk ==
  \A r \in Reqs :
    /\ Len(contextCalls[r]) = thunkCalls[r]
    /\ Len(contextCalls[r]) <= 1
    /\ \A i \in 1..Len(contextCalls[r]) :
         /\ Len(contextCalls[r][i]) = 1
         /\ contextCalls[r][i][1] = [ctx |-> r]
    /\ ~engine[r].callsContext => contextCalls[r] = <<>>

C3_Witness ==
  \E r \in Reqs :
    /\ pc[r] = "returned"
    /\ thunkCalls[r] = 1
    /\ contextCalls[r] = <<<<[ctx |-> r]>>>>

\* C4: for a chunked response the chunks emitted on the outbound stream are
\* at every moment a prefix of the engine's sequence: same order, none
\* skipped, none duplicated.
C4_EmittedIsPrefix ==
  \A r \in Reqs :
    IF response[r].body.kind = "chunked"
    THEN LET chunks == response[r].body.asyncIterator IN
           /\ Len(emitted[r]) <= Len(chunks)
           /\ emitted[r] = SubSeq(chunks, 1, Len(emitted[r]))
    ELSE emitted[r] = <<>>

C4_Witness ==
  \E r \in Reqs :
    /\ response[r].body.kind = "chunked"
    /\ response[r].body.asyncIterator = <<"a", "b">>
    /\ generator[r] = "completed"
    /\ emitted[r] = <<"a", "b">>

\* C5: for a chunked response flush is called once for each emitted chunk
\* when the outbound body has a flush method (the call for a chunk is made
\* when the generator is resumed after yielding it), and never when it has
\* none; the flush calls never outnumber the emitted chunks.
C5_FlushOncePerChunkIfPresent ==
  \A r \in Reqs :
    /\ flushCalls[r] <= Len(emitted[r])
    /\ (generator[r] # "none" /\ ctxBody[r].flush = FALSE) => flushCalls[r] = 0
    /\ (generator[r] # "none" /\ ctxBody[r].flush = TRUE) =>
         flushCalls[r] =
           IF generator[r] \in {"suspendedYield", "flush"}
           THEN Len(emitted[r]) - 1 ELSE Len(emitted[r])

C5_Witness ==
  \E r \in Reqs :
    /\ generator[r] = "completed"
    /\ ctxBody[r].flush = TRUE
    /\ Len(emitted[r]) = 2
    /\ flushCalls[r] = 2

\* C6: a response whose body tag is neither complete nor chunked makes the
\* handler throw an error that names the tag, in the run that reads the tag;
\* no outbound body is assigned, no stream is made, no write-back happens.
C6_UnknownKindThrows ==
  \A r \in Reqs :
    (Responded(r) /\ response[r].body.kind \notin {"complete", "chunked"}) =>
      /\ pc[r] \in {"render", "thrown"}
      /\ ctxBody[r] = Undefined
      /\ generator[r] = "none"
      /\ pc[r] = "thrown" =>
           error[r] = "Delivery method " \o response[r].body.kind \o " not implemented"

C6_Witness ==
  \E r \in Reqs :
    /\ response[r].body.kind = "weird"
    /\ pc[r] = "thrown"
    /\ error[r] = "Delivery method weird not implemented"
    /\ ctxBody[r] = Undefined

\* C7: the write-back of the status sets ctx.status to the response's status
\* when the response has one and leaves it as it was otherwise, and nothing
\* in the rest of the handler changes it afterwards.
C7_StatusWriteBack ==
  [][\A r \in Reqs :
       /\ (pc[r] = "status" /\ pc'[r] # "status") =>
            ctxStatus'[r] = IF response[r].status = Undefined
                            THEN ctxStatus[r]
                            ELSE response[r].status.value
       /\ pc[r] \in {"headers", "returned"} => ctxStatus'[r] = ctxStatus[r]]_vars

C7_Witness ==
  \E r \in Reqs :
    /\ pc[r] = "returned"
    /\ Responded(r)
    /\ response[r].status = Undefined
    /\ input[r].status = 404
    /\ ctxStatus[r] = 404

\* the join of a list of header values, built from its last element
RECURSIVE CommaSpaceJoined(_)
CommaSpaceJoined(a) ==
  IF Len(a) = 0 THEN ""
  ELSE IF Len(a) = 1 THEN a[1]
  ELSE CommaSpaceJoined(SubSeq(a, 1, Len(a) - 1)) \o ", " \o a[Len(a)]

\* C8: the canonical headers passed to the engine have exactly the keys of
\* the raw entries whose value is not undefined, each once; a single value
\* is kept and a list of values is joined with ", " in its order.
C8_CanonicalHeaders ==
  \A r \in Reqs :
    engineCalls[r] # <<>> =>
      LET raw == input[r].headers
          canon == engineCalls[r][1].httpGraphQLRequest.headers
      IN /\ {canon[i][1] : i \in 1..Len(canon)}
              = {raw[i][1] : i \in {j \in 1..Len(raw) : raw[j][2].type # "undefined"}}
         /\ \A i, j \in 1..Len(canon) : canon[i][1] = canon[j][1] => i = j
         /\ \A i \in 1..Len(raw) :
              raw[i][2].type # "undefined" =>
                \E j \in 1..Len(canon) :
                  /\ canon[j][1] = raw[i][1]
                  /\ canon[j][2] = IF raw[i][2].type = "array"
                                   THEN CommaSpaceJoined(raw[i][2].value)
                                   ELSE raw[i][2].value

C8_Witness ==
  \E r \in Reqs :
    /\ input[r].headers = <<<<"b", Undefined>>, <<"a", Arr(<<"1", "2">>)>>>>
    /\ engineCalls[r] # <<>>
    /\ engineCalls[r][1].httpGraphQLRequest.headers = <<<<"a", "1, 2">>>>

\* the value the entries es of a header mapping leave under key k, starting
\* from the values old: the value of the last entry for k, alone
LastWins(es, k, old) ==
  IF \E i \in 1..Len(es) : es[i][1] = k
  THEN LET last == CHOOSE i \in 1..Len(es) :
                     es[i][1] = k /\ \A j \in (i + 1)..Len(es) : es[j][1] # k
       IN <<es[last][2]>>
  ELSE old

\* C9: the response's header entries are applied in the mapping's order with
\* set semantics: after the entries written so far, and so after write-back,
\* each key holds only the last value supplied for it, or what it held before
\* when the response has no entry for it.
C9_HeadersLastWriteWins ==
  \A r \in Reqs :
    pc[r] \in {"headers", "returned"} /\ Responded(r) =>
      LET written == SubSeq(response[r].headers, 1, headerIndex[r] - 1) IN
        /\ pc[r] = "returned" => written = response[r].headers
        /\ \A k \in HeaderKeys :
             ctxHeaders[r][k] = LastWins(written, k, input[r].outHeaders[k])

C9_Witness ==
  \E r \in Reqs :
    /\ pc[r] = "returned"
    /\ input[r].outHeaders["a"] = <<"old">>
    /\ response[r].headers = <<<<"a", "1">>, <<"a", "2">>>>
    /\ ctxHeaders[r]["a"] = <<"2">>

\* C10: for a complete response the outbound body is exactly the response's
\* string; no stream is created and nothing is read from a chunk sequence.
C10_CompleteBodyIsString ==
  \A r \in Reqs :
    (response[r].body.kind = "complete" /\ pc[r] # "render") =>
      /\ pc[r] \in {"status", "headers", "returned"}
      /\ ctxBody[r] = [type |-> "string", value |-> response[r].body.string]
      /\ generator[r] = "none"
      /\ requested[r] = 0
      /\ emitted[r] = <<>>

C10_Witness ==
  \E r \in Reqs :
    /\ response[r].body.kind = "complete"
    /\ response[r].body.string = "{data}"
    /\ pc[r] = "returned"
    /\ ctxBody[r] = Str("{data}")
    /\ generator[r] = "none"

\* the outbound body holds what the response's body tag asks for
BodyAssigned(r) ==
  \/ /\ response[r].body.kind = "complete"
     /\ ctxBody[r] = Str(response[r].body.string)
  \/ /\ response[r].body.kind = "chunked"
     /\ ctxBody[r].type = "stream"
     /\ generator[r] # "none"

\* C11: in a handler invocation that reaches write-back the outbound body is
\* assigned (for chunked: the stream created and assigned) before the status
\* statement runs and before any response header is set: every step of the
\* handler that writes the status or a header, or stands at the status or
\* header statements, starts from a state whose body is already assigned.
C11_BodyBeforeStatusAndHeaders ==
  [][\A r \in Reqs :
       (/\ pc[r] \in {"await", "render", "status", "headers"}
        /\ \/ pc[r] \in {"status", "headers"}
           \/ ctxStatus'[r] # ctxStatus[r]
           \/ ctxHeaders'[r] # ctxHeaders[r])
       => BodyAssigned(r)]_vars

C11_Witness ==
  \E r \in Reqs :
    /\ response[r].body.kind = "chunked"
    /\ response[r].status = Num(400)
    /\ pc[r] = "headers"
    /\ headerIndex[r] = 2
    /\ ctxStatus[r] = 400
    /\ ctxHeaders[r]["a"] = <<"1">>
    /\ generator[r] = "suspendedStart"
    /\ ctxBody[r].type = "stream"

\* C12: when the engine's call rejects the handler does not catch it: the
\* invocation ends thrown with the engine's failure, it never returns
\* normally, and the engine has been called once only.
C12_EngineFailurePropagates ==
  \A r \in Reqs :
    (engineCalls[r] # <<>> /\ engine[r].result = "reject" /\ pc[r] # "await") =>
      /\ pc[r] = "thrown"
      /\ error[r] = "engine"
      /\ Len(engineCalls[r]) = 1
      /\ ~Responded(r)

C12_Witness ==
  \E r \in Reqs :
    /\ engine[r].result = "reject"
    /\ engine[r].callsContext
    /\ thunkCalls[r] = 1
    /\ pc[r] = "thrown"
    /\ error[r] = "engine"
    /\ Len(engineCalls[r]) = 1

\* C13: server.assertStarted is called once, with the name 'koaMiddleware()',
\* when the middleware is created; creation fails when the server is not
\* started, and a request is handled only by a middleware whose check passed.
C13_StartedCheckedAtCreation ==
  /\ Len(assertStartedCalls) <= 1
  /\ middleware = "none" <=> assertStartedCalls = <<>>
  /\ middleware # "none" => assertStartedCalls = <<"koaMiddleware()">>
  /\ middleware = "created" => serverStarted
  /\ middleware = "failed" => ~serverStarted
  /\ \A r \in Reqs :
       Handled(r) => /\ middleware = "created"
                     /\ serverStarted
                     /\ assertStartedCalls = <<"koaMiddleware()">>

C13_Witness ==
  /\ middleware = "failed"
  /\ ~serverStarted
  /\ assertStartedCalls = <<"koaMiddleware()">>
  /\ \A r \in Reqs : ~Handled(r)

\* C14: chunked delivery is pull-based: the next chunk is asked of the
\* engine's iterator only when every chunk obtained so far has been emitted
\* and flushed (if the body has flush), so at most one chunk taken from the
\* engine is ever waiting inside the generator.
C14_PullBasedDelivery ==
  /\ [](\A r \in Reqs :
          /\ Len(pending[r]) <= 1
          /\ requested[r] <= Len(emitted[r]) + 1
          /\ Len(emitted[r]) + Len(pending[r]) <= requested[r])
  /\ [][\A r \in Reqs :
          requested'[r] # requested[r] =>
            /\ requested'[r] = requested[r] + 1
            /\ requested[r] = Len(emitted[r])
            /\ pending[r] = <<>>
            /\ flushCalls[r] = IF HasFlush(ctxBody[r]) THEN Len(emitted[r]) ELSE 0]_vars

C14_Witness ==
  \E r \in Reqs :
    /\ generator[r] = "yield"
    /\ requested[r] = 2
    /\ emitted[r] = <<"a">>
    /\ pending[r] = <<"b">>
    /\ flushCalls[r] = 1

\* the status and the headers of the response are written
HeadWritten(r) ==
  /\ pc[r] = "returned"
  /\ headerIndex[r] = Len(response[r].headers) + 1
  /\ ctxStatus[r] = IF response[r].status = Undefined THEN input[r].status
                    ELSE response[r].status.value

\* C15: for a chunked response the handler only initiates the stream: no
\* chunk is asked of the engine's iterator and none is emitted before the
\* handler has written status and headers and returned.
C15_NoChunkBeforeHeadWritten ==
  \A r \in Reqs :
    (\/ requested[r] > 0
     \/ emitted[r] # <<>>
     \/ pending[r] # <<>>
     \/ flushCalls[r] > 0
     \/ generator[r] \notin {"none", "suspendedStart"}) => HeadWritten(r)

C15_Witness ==
  \E r \in Reqs :
    /\ response[r].body.kind = "chunked"
    /\ response[r].status = Num(400)
    /\ generator[r] = "awaiting"
    /\ requested[r] = 1
    /\ emitted[r] = <<>>
    /\ pc[r] = "returned"
    /\ ctxStatus[r] = 400

\* C17: once the outbound consumer has stopped reading (the connection is
\* gone) the generator asks the engine's iterator for no further chunk and
\* calls flush no more.
C17_DropStopsTheLoop ==
  [][\A r \in Reqs :
       dropped[r] => /\ requested'[r] = requested[r]
                     /\ flushCalls'[r] = flushCalls[r]]_vars

C17_Witness ==
  \E r \in Reqs :
    /\ dropped[r]
    /\ response[r].body.asyncIterator = <<"a", "b">>
    /\ generator[r] = "suspendedYield"
    /\ emitted[r] = <<"a">>
    /\ requested[r] = 1
    /\ flushCalls[r] = 0

\* C19: when the handler fails -- the engine's call rejected, or the body tag
\* is not known -- nothing of the response has been written: outbound status,
\* headers and body are as they were when the handler was invoked.
C19_FailureWritesNothing ==
  \A r \in Reqs :
    pc[r] = "thrown" =>
      /\ ctxStatus[r] = input[r].status
      /\ ctxHeaders[r] = input[r].outHeaders
      /\ ctxBody[r] = Undefined
      /\ generator[r] = "none"
      /\ headerIndex[r] = 1

C19_Witness ==
  \E r \in Reqs :
    /\ pc[r] = "thrown"
    /\ response[r].body.kind = "other"
    /\ response[r].status = Num(400)
    /\ response[r].headers = <<<<"a", "1">>>>
    /\ ctxStatus[r] = 404
    /\ ctxHeaders[r] = NoHeaders

\* C16: for a chunked response with a finite chunk sequence whose consumer
\* keeps reading, the outbound stream ends eventually; it ends in the step in
\* which the engine's iterator reports its end, and by then every chunk of the
\* sequence has been emitted.
C16_StreamEndsWithSequence ==
  /\ \A r \in Reqs : (generator[r] = "suspendedStart") ~> (generator[r] = "completed")
  /\ [][\A r \in Reqs :
          (generator'[r] = "completed" /\ generator[r] # "completed") =>
            /\ generator[r] = "awaiting"
            /\ requested[r] = Len(response[r].body.asyncIterator) + 1
            /\ emitted[r] = response[r].body.asyncIterator
            /\ emitted'[r] = emitted[r]]_vars

C16_Witness ==
  \E r \in Reqs :
    /\ generator[r] = "completed"
    /\ ~dropped[r]
    /\ response[r].body.asyncIterator = <<"b", "a">>
    /\ requested[r] = 3
    /\ emitted[r] = <<"b", "a">>

\* everything the model keeps for request r
OfRequest(r) ==
  <<pc[r], ctxStatus[r], ctxBody[r], ctxHeaders[r], engineCalls[r], thunkCalls[r],
    contextCalls[r], response[r], error[r], headerIndex[r], generator[r],
    requested[r], pending[r], emitted[r], flushCalls[r], dropped[r]>>

\* what request r's outbound object must hold at its position, given only
\* r's own inbound data and the response the engine has for r
OutboundFromOwnData(r) ==
  LET in == input[r]
      own == engine[r]
  IN IF pc[r] \in {"absent", "idle", "await", "render", "thrown"}
     THEN /\ ctxStatus[r] = in.status
          /\ ctxBody[r] = Undefined
          /\ ctxHeaders[r] = in.outHeaders
     ELSE IF in.body \in FalsyBodies
     THEN /\ ctxStatus[r] = 500
          /\ ctxBody[r] = Str(BodyNotSetMessage)
          /\ ctxHeaders[r] = in.outHeaders
     ELSE /\ own.result = "resolve"
          /\ response[r] = own.response
          /\ IF own.response.body.kind = "complete"
             THEN /\ ctxBody[r] = Str(own.response.body.string)
                  /\ generator[r] = "none"
                  /\ emitted[r] = <<>>
             ELSE /\ own.response.body.kind = "chunked"
                  /\ ctxBody[r].type = "stream"
                  /\ emitted[r] = SubSeq(own.response.body.asyncIterator, 1, Len(emitted[r]))
          /\ pc[r] \in {"headers", "returned"} =>
               ctxStatus[r] = IF own.response.status = Undefined THEN in.status
                              ELSE own.response.status.value
          /\ pc[r] = "returned" =>
               \A k \in HeaderKeys :
                 ctxHeaders[r][k] = LastWins(own.response.headers, k, in.outHeaders[k])

\* C18: handler invocations of different requests interleave at their
\* suspension points without interfering: a step of one request changes
\* nothing that belongs to another, and what is written to a request's
\* outbound object follows from that request's inbound data and response alone.
C18_RequestsDoNotInterfere ==
  /\ [](\A r \in Reqs : OutboundFromOwnData(r))
  /\ [][\A r, q \in Reqs :
          (r # q /\ OfRequest(r)' # OfRequest(r)) => OfRequest(q)' = OfRequest(q)]_vars

C18_Witness ==
  /\ pc[1] = "await"
  /\ thunkCalls[1] = 1
  /\ engine[1].result = "resolve"
  /\ engine[1].response.body.kind = "complete"
  /\ pc[2] = "returned"
  /\ generator[2] = "awaiting"
  /\ emitted[2] = <<"a">>
  /\ ctxHeaders[2]["b"] = <<"1">>
  /\ ctxHeaders[2]["a"] = <<"old">>
  /\ ctxBody[1] = Undefined

====
